---- MODULE Spec2Model ----
(***************************************************************************)
(* Model of scripts/pipeline-monitor.py: the PipelineMonitor status        *)
(* service.  One asyncio event loop runs the poll task (monitoring_loop),  *)
(* one handle_client task per viewer connection and, after a signal, the   *)
(* shutdown task.  Tasks are interleaved only where the running task       *)
(* awaits I/O (HTTP request, websocket send, sleep, next inbound message). *)
(***************************************************************************)
EXTENDS Integers, Sequences, FiniteSets, TLC

(* ---------------------------- bounds ---------------------------------- *)
MaxCycles == 2          \* poll cycles explored
MaxViewers == 2         \* websocket connections explored
MaxInbound == 1         \* inbound payloads handled per viewer
MaxRuns == 2            \* runs in one answer of the run list explored
MaxTime == 4            \* ISO times (seconds) given to _calculate_duration alone
MaxAttempts == 6        \* consecutive reconnect attempts of the dashboard client

(* ------------------------ program constants --------------------------- *)
check_interval == 30    \* --interval default
RecentRunsLimit == 10   \* data.get('workflow_runs', [])[:10]

Viewers == 1..MaxViewers

(* ------------------------------ values -------------------------------- *)
\* A timestamp field of the provider's JSON: an ISO time (t seconds), a
\* string that is no ISO time, or null.  None is the null timestamp.
Iso(t) == [kind |-> "iso", t |-> t]
BadTime == [kind |-> "bad", t |-> 0]
None == [kind |-> "null", t |-> 0]

\* Python truthiness of a timestamp field: None is falsy, a non-empty
\* string is truthy.
Truthy(ts) == ts.kind # "null"

\* An exact rational, for Python's float quotients.
RECURSIVE Gcd(_, _)
Gcd(a, b) == IF b = 0 THEN a ELSE Gcd(b, a % b)

Abs(x) == IF x < 0 THEN -x ELSE x

Frac(n, d) ==
  LET g == Gcd(Abs(n), d)
  IN [num |-> n \div g, den |-> d \div g]

Zero == [num |-> 0, den |-> 1]

(* -------------------- _calculate_duration ----------------------------- *)
\* The subtraction without the 'except: return 0'.
_calculate_durationUnguarded(start_time, end_time) ==
  end_time.t - start_time.t

\* int((end - start).total_seconds()); 0 when either value does not parse.
_calculate_duration(start_time, end_time) ==
  IF start_time.kind = "iso" /\ end_time.kind = "iso"
  THEN end_time.t - start_time.t
  ELSE 0

(* --------------------------- sequences -------------------------------- *)
RECURSIVE SumSeq(_)
SumSeq(s) == IF s = <<>> THEN 0 ELSE Head(s) + SumSeq(Tail(s))

\* The whole list, whatever the limit.
TakeAll(s, n) == s

Take(s, n) == SubSeq(s, 1, IF Len(s) < n THEN Len(s) ELSE n)

Durations(runs) == [i \in 1..Len(runs) |-> runs[i].duration]

IsSuccess(r) == r.conclusion = "success"
IsCompleted(r) == r.duration > 0

(* ------------------- the three sources' inputs ------------------------ *)
\* One element of the provider's 'workflow_runs' array.  wellformed = FALSE
\* stands for an element that lacks one of the keys the code subscripts
\* (run['name'], run['id'], ...), which raises KeyError.
Run(id, name, status, conclusion, created, updated) ==
  [wellformed |-> TRUE, id |-> id, name |-> name, status |-> status,
   conclusion |-> conclusion, created_at |-> created, updated_at |-> updated]

MalformedRun ==
  [wellformed |-> FALSE, id |-> 0, name |-> "", status |-> "",
   conclusion |-> "", created_at |-> None, updated_at |-> None]

RunA == Run(1, "ci", "completed", "success", Iso(10), Iso(40))
RunB == Run(2, "deploy", "completed", "failure", Iso(20), Iso(30))
RunC == Run(3, "ci", "in_progress", "null", Iso(50), Iso(50))

\* A body with more runs than the loop keeps: two more than the limit, of
\* two workflow names.
LongRun(i) ==
  Run(100 + i, IF i % 3 = 0 THEN "deploy" ELSE "ci", "completed",
      IF i % 2 = 0 THEN "success" ELSE "failure", Iso(i), Iso(i + 1))

LongList == [i \in 1..(RecentRunsLimit + 2) |-> LongRun(i)]

\* Responses of GET /actions/runs: an HTTP status with the parsed body, or
\* a raised exception (network error).
RunsResponses ==
  { [raised |-> FALSE, status |-> 200, workflow_runs |-> LongList],
    [raised |-> FALSE, status |-> 200, workflow_runs |-> <<RunA>>],
    [raised |-> FALSE, status |-> 200, workflow_runs |-> <<RunB, RunC>>],
    [raised |-> FALSE, status |-> 200, workflow_runs |-> <<RunA, MalformedRun>>],
    [raised |-> FALSE, status |-> 500, workflow_runs |-> <<>>],
    [raised |-> TRUE, status |-> 0, workflow_runs |-> <<>>] }

\* More runs the provider may return: one whose updated_at is earlier than
\* its created_at, and one whose created_at is no ISO time and whose
\* updated_at is null.
RunD == Run(4, "ci", "completed", "success", Iso(60), Iso(5))
RunE == Run(5, "deploy", "completed", "cancelled", BadTime, None)

RunPool == {RunA, RunB, RunC, RunD, RunE}

\* The run lists of at most MaxRuns different runs, the empty one included.
RunLists ==
  UNION { {l \in [1..n -> RunPool] : \A i, j \in 1..n : l[i] = l[j] => i = j} :
          n \in 0..MaxRuns }

\* Status 200 with each of these lists as the body's 'workflow_runs'.
PoolResponses ==
  { [raised |-> FALSE, status |-> 200, workflow_runs |-> l] : l \in RunLists }

\* One element of the pull-request array; wellformed = FALSE lacks a key.
Pull(number, login) == [wellformed |-> TRUE, number |-> number, login |-> login]
MalformedPull == [wellformed |-> FALSE, number |-> 0, login |-> ""]

PullsResponses ==
  { [raised |-> FALSE, status |-> 200,
     pulls |-> <<Pull(7, "dependabot[bot]"), Pull(8, "alice")>>],
    [raised |-> FALSE, status |-> 200,
     pulls |-> <<Pull(9, "dependabot[bot]"), MalformedPull>>],
    [raised |-> FALSE, status |-> 200,
     pulls |-> <<Pull(9, "dependabot[bot]"), Pull(8, "alice"),
                 Pull(7, "dependabot[bot]")>>],
    [raised |-> FALSE, status |-> 404, pulls |-> <<>>] }

\* docs/security-reports/combined: whether it exists and the files in it
\* that match security-report-*.json, each with its mtime and whether
\* json.load accepts it.
Report(name, mtime, parses, status, total) ==
  [name |-> name, mtime |-> mtime, parses |-> parses, status |-> status,
   total |-> total, timestamp |-> Iso(mtime)]

SecurityDirs ==
  { [exists |-> FALSE, reports |-> {}],
    [exists |-> TRUE, reports |-> {}],
    [exists |-> TRUE,
     reports |-> {Report("security-report-b.json", 1, TRUE, "CLEAN", 0),
                  Report("security-report-a.json", 2, TRUE, "VULNERABILITIES_FOUND", 3)}],
    [exists |-> TRUE,
     reports |-> {Report("security-report-a.json", 1, TRUE, "CLEAN", 0),
                  Report("security-report-c.json", 3, FALSE, "", 0)}] }

(* ---------------------- the status document --------------------------- *)
\* 'workflows' is a Python dict: a sequence of groups in insertion order.
\* 'security_status' {} is the record with status "".
EmptySecurity ==
  [last_scan |-> None, total_vulnerabilities |-> 0, status |-> "", report_file |-> ""]

InitialMetrics ==
  [total_runs |-> 0, success_rate |-> Zero, avg_duration |-> Zero,
   last_success |-> None, last_failure |-> None]

InitialStatus ==
  [last_update |-> None, workflows |-> <<>>, dependabot_prs |-> <<>>,
   security_status |-> EmptySecurity, metrics |-> InitialMetrics]

(* -------------------- update_workflow_status -------------------------- *)
RunSummary(run) ==
  [id |-> run.id, status |-> run.status, conclusion |-> run.conclusion,
   created_at |-> run.created_at, updated_at |-> run.updated_at,
   duration |-> _calculate_duration(run.created_at, run.updated_at)]

GroupIndex(ws, name) ==
  IF \E i \in 1..Len(ws) : ws[i].name = name
  THEN CHOOSE i \in 1..Len(ws) : ws[i].name = name
  ELSE 0

\* One iteration of 'for run in recent_runs'.
AddRun(ws, run) ==
  LET i == GroupIndex(ws, run.name)
  IN IF i = 0
     THEN Append(ws, [name |-> run.name, latest_run |-> run,
                      recent_runs |-> <<RunSummary(run)>>,
                      success_rate |-> Zero, avg_duration |-> Zero])
     ELSE [ws EXCEPT ![i].recent_runs = Append(@, RunSummary(run))]

RECURSIVE GroupRuns(_, _)
GroupRuns(ws, runs) ==
  IF runs = <<>> THEN ws ELSE GroupRuns(AddRun(ws, Head(runs)), Tail(runs))

\* A rate computed over the runs that have a conclusion only.
WithRatesOverConcluded(w) ==
  LET runs == w.recent_runs
      concluded == SelectSeq(runs, LAMBDA r : r.conclusion # "null")
      successful == Len(SelectSeq(runs, IsSuccess))
      completed_runs == SelectSeq(runs, IsCompleted)
  IN IF concluded = <<>> THEN w
     ELSE [w EXCEPT
             !.success_rate = Frac(successful * 100, Len(concluded)),
             !.avg_duration =
                IF completed_runs = <<>> THEN @
                ELSE Frac(SumSeq(Durations(completed_runs)), Len(completed_runs))]

\* 'Calculate metrics for each workflow'.
WithRates(w) ==
  LET runs == w.recent_runs
      successful == Len(SelectSeq(runs, IsSuccess))
      completed_runs == SelectSeq(runs, IsCompleted)
  IN IF runs = <<>> THEN w
     ELSE [w EXCEPT
             !.success_rate = Frac(successful * 100, Len(runs)),
             !.avg_duration =
                IF completed_runs = <<>> THEN @
                ELSE Frac(SumSeq(Durations(completed_runs)), Len(completed_runs))]

workflow_status(recent_runs) ==
  LET grouped == GroupRuns(<<>>, recent_runs)
  IN [i \in 1..Len(grouped) |-> WithRates(grouped[i])]

AllWellformed(items) == \A i \in 1..Len(items) : items[i].wellformed

\* The runs the loop has handled when it meets the first element that
\* lacks a key.
RECURSIVE WellformedPrefix(_)
WellformedPrefix(items) ==
  IF items = <<>> \/ ~Head(items).wellformed THEN <<>>
  ELSE <<Head(items)>> \o WellformedPrefix(Tail(items))

\* Whether the refresh reaches 'self.pipeline_status[...] = ...'.
RunsFetched(resp) ==
  /\ ~resp.raised
  /\ resp.status = 200
  /\ AllWellformed(Take(resp.workflow_runs, RecentRunsLimit))

\* A refresh that stored each group in the document as soon as it was
\* built, so that a KeyError leaves the runs handled so far behind.
WorkflowsAfterPartial(old, resp) ==
  IF resp.raised \/ resp.status # 200 THEN old
  ELSE workflow_status(WellformedPrefix(Take(resp.workflow_runs, RecentRunsLimit)))

\* pipeline_status['workflows'] after update_workflow_status got resp.
WorkflowsAfter(old, resp) ==
  IF RunsFetched(resp)
  THEN workflow_status(Take(resp.workflow_runs, RecentRunsLimit))
  ELSE old

(* -------------------- update_dependabot_status ------------------------ *)
IsDependabot(pr) == pr.login = "dependabot[bot]"

PullSummary(pr) == [number |-> pr.number]

PullsFetched(resp) ==
  /\ ~resp.raised
  /\ resp.status = 200
  /\ AllWellformed(resp.pulls)

\* A refresh that keeps the pull requests of every author.
DependabotAfterUnfiltered(old, resp) ==
  IF PullsFetched(resp)
  THEN [i \in 1..Len(resp.pulls) |-> PullSummary(resp.pulls[i])]
  ELSE old

DependabotAfter(old, resp) ==
  IF PullsFetched(resp)
  THEN LET bot == SelectSeq(resp.pulls, IsDependabot)
       IN [i \in 1..Len(bot) |-> PullSummary(bot[i])]
  ELSE old

(* --------------------- update_security_status ------------------------- *)
\* The report with the least modification time.
oldest_report(reports) ==
  CHOOSE r \in reports : \A q \in reports : q.mtime >= r.mtime

\* max(json_reports, key=lambda p: p.stat().st_mtime)
latest_report(reports) ==
  CHOOSE r \in reports : \A q \in reports : q.mtime <= r.mtime

SecurityFailed(dir) ==
  dir.exists /\ dir.reports # {} /\ ~latest_report(dir.reports).parses

\* The NO_SCAN value has only last_scan and status; the two other keys are
\* shown with the values .get() would default to.
NoScan ==
  [last_scan |-> None, total_vulnerabilities |-> 0, status |-> "NO_SCAN",
   report_file |-> ""]

SecurityAfter(old, dir) ==
  IF ~dir.exists THEN old
  ELSE IF dir.reports = {} THEN NoScan
  ELSE LET r == latest_report(dir.reports)
       IN IF ~r.parses THEN old
          ELSE [last_scan |-> r.timestamp, total_vulnerabilities |-> r.total,
                status |-> r.status, report_file |-> r.name]

(* -------------------------- update_metrics ---------------------------- *)
RECURSIVE all_runs(_)
all_runs(workflows) ==
  IF workflows = <<>> THEN <<>>
  ELSE Head(workflows).recent_runs \o all_runs(Tail(workflows))

\* Order of the updated_at strings: ISO times by time, other text after
\* the digits.
SortKey(ts) == IF ts.kind = "iso" THEN ts.t ELSE 1000000

\* sorted() compares the keys; a None key cannot be compared (TypeError).
SortRaises(runs) ==
  Len(runs) >= 2 /\ \E i \in 1..Len(runs) : runs[i].updated_at.kind = "null"

\* Insert r after every element whose key is >= its own (stable, descending).
RECURSIVE InsertDesc(_, _)
InsertDesc(sorted, r) ==
  IF sorted = <<>> THEN <<r>>
  ELSE IF SortKey(Head(sorted).updated_at) >= SortKey(r.updated_at)
       THEN <<Head(sorted)>> \o InsertDesc(Tail(sorted), r)
       ELSE <<r>> \o sorted

RECURSIVE SortDesc(_, _)
SortDesc(acc, runs) ==
  IF runs = <<>> THEN acc ELSE SortDesc(InsertDesc(acc, Head(runs)), Tail(runs))

sorted_runs(runs) == SortDesc(<<>>, runs)

\* A capture that assigns at every matching run.
RECURSIVE CaptureOverwriting(_, _)
CaptureOverwriting(m, runs) ==
  IF runs = <<>> THEN m
  ELSE LET run == Head(runs)
           m2 == IF run.conclusion = "success"
                 THEN [m EXCEPT !.last_success = run.updated_at]
                 ELSE IF run.conclusion \in {"failure", "cancelled"}
                      THEN [m EXCEPT !.last_failure = run.updated_at]
                      ELSE m
       IN CaptureOverwriting(m2, Tail(runs))

\* 'for run in sorted_runs': the last_success / last_failure capture.
RECURSIVE Capture(_, _)
Capture(m, runs) ==
  IF runs = <<>> THEN m
  ELSE LET run == Head(runs)
           m2 == IF run.conclusion = "success" /\ ~Truthy(m.last_success)
                 THEN [m EXCEPT !.last_success = run.updated_at]
                 ELSE IF run.conclusion \in {"failure", "cancelled"}
                         /\ ~Truthy(m.last_failure)
                      THEN [m EXCEPT !.last_failure = run.updated_at]
                      ELSE m
       IN Capture(m2, Tail(runs))

MetricsAfter(metrics, workflows) ==
  LET runs == all_runs(workflows)
      successful == Len(SelectSeq(runs, IsSuccess))
      completed_runs == SelectSeq(runs, IsCompleted)
      m1 == [metrics EXCEPT
               !.success_rate = Frac(successful * 100, Len(runs)),
               !.avg_duration =
                  IF completed_runs = <<>> THEN @
                  ELSE Frac(SumSeq(Durations(completed_runs)), Len(completed_runs))]
  IN IF workflows = <<>> \/ runs = <<>> THEN metrics
     ELSE IF SortRaises(runs) THEN m1
     ELSE [Capture(m1, sorted_runs(runs)) EXCEPT !.total_runs = Len(runs)]

(* ------------------------ websocket messages -------------------------- *)
\* json.dumps of a message: data holds the serialised document (<<>> when
\* the message has no 'data' key).
StatusMessage(type, status) == [type |-> type, data |-> <<status>>, message |-> ""]
PongMessage == [type |-> "pong", data |-> <<>>, message |-> ""]
ErrorMessage == [type |-> "error", data |-> <<>>, message |-> "Invalid JSON"]

\* Texts a viewer may send.
Payloads ==
  { "{\"type\": \"ping\"}", "{\"type\": \"request_status\"}",
    "{\"type\": \"subscribe\"}", "{}", "[1, 2]", "not json" }

\* json.loads: ok = FALSE is JSONDecodeError; otherwise the kind of value
\* parsed and, for an object, what .get('type') returns ("" for None).
json_loads(text) ==
  CASE text = "{\"type\": \"ping\"}" ->
         [ok |-> TRUE, kind |-> "object", type |-> "ping"]
    [] text = "{\"type\": \"request_status\"}" ->
         [ok |-> TRUE, kind |-> "object", type |-> "request_status"]
    [] text = "{\"type\": \"subscribe\"}" ->
         [ok |-> TRUE, kind |-> "object", type |-> "subscribe"]
    [] text = "{}" -> [ok |-> TRUE, kind |-> "object", type |-> ""]
    [] text = "[1, 2]" -> [ok |-> TRUE, kind |-> "array", type |-> ""]
    [] OTHER -> [ok |-> FALSE, kind |-> "", type |-> ""]

(* ------------------------------ state --------------------------------- *)
VARIABLES
  mainPc,           \* run_monitor: "initialize", "gather", "exit_1"
  serverPc,         \* start_websocket_server task: "none", "starting", "serving"
  configured,       \* github_token set and github_repo splits in two
  pipeline_status,  \* self.pipeline_status
  pollPc,           \* position of the monitoring_loop task
  cycle,            \* number of the current poll cycle
  clients,          \* self.clients
  conn,             \* per viewer: "none", "open", "broken", "closed"
  handler,          \* per viewer, handle_client: "none", "reading", "done"
  wire,             \* per viewer: the frames the last step wrote to it
  first,            \* per viewer: type of the first frame written to it
  rx,               \* the payload the last step read, and from whom
  nreceived,        \* number of payloads read so far
  message,          \* broadcast_status: the serialised message
  iter,             \* broadcast_status: the iterator over self.clients
  disconnected,     \* broadcast_status: the local set (kept to the cycle's end)
  shutPc,           \* shutdown task: "none", "closing", "done"
  shutTodo,         \* shutdown: what is left of self.clients.copy()
  snapshot,         \* current-status.json (<<>> before the first write)
  sleepDelay,       \* argument of the asyncio.sleep the loop is in
  pre,              \* history: the document when the cycle started
  refreshed,        \* history: per source, how its refresh ended this cycle
  saves,            \* history: save_status calls of this cycle
  sleeps,           \* history: asyncio.sleep calls of the loop
  bcStart,          \* history: self.clients when the broadcast started
  bcTried,          \* history: viewers the broadcast called send() for
  ws,               \* dashboard client, this.ws: "undefined", "null",
                    \* "connecting", "open", "errored", "closed"
  reconnectAttempts, \* dashboard client: this.reconnectAttempts
  reconnectDelay,   \* dashboard client: this.reconnectDelay (0 before the
                    \* constructor has run)
  timers,           \* dashboard client: delays of the pending setTimeout calls
  connectionStatus  \* dashboard client: text of the connectionStatus element

vars ==
  <<mainPc, serverPc, configured, pipeline_status, pollPc, cycle, clients,
    conn, handler, wire, first, rx, nreceived, message, iter, disconnected, shutPc,
    shutTodo, snapshot, sleepDelay, pre, refreshed, saves, sleeps, bcStart,
    bcTried, ws, reconnectAttempts, reconnectDelay, timers,
    connectionStatus>>

pollVars == <<pipeline_status, pollPc, cycle, message, iter, disconnected,
              snapshot, sleepDelay, pre, refreshed, saves, sleeps, bcStart,
              bcTried>>
viewerVars == <<clients, conn, handler, first, nreceived>>
shutVars == <<shutPc, shutTodo>>
mainVars == <<mainPc, serverPc, configured>>
clientVars == <<ws, reconnectAttempts, reconnectDelay, timers,
                connectionStatus>>

NoWire == [v \in Viewers |-> <<>>]
NoRx == [viewer |-> 0, text |-> ""]

\* A step that writes no frame and reads no payload.
Quiet == wire' = NoWire /\ rx' = NoRx

\* The step writes frames to viewer v only.
Write(v, frames) ==
  /\ wire' = [NoWire EXCEPT ![v] = frames]
  /\ first' = IF first[v] = "" /\ frames # <<>>
              THEN [first EXCEPT ![v] = Head(frames).type]
              ELSE first

NoMessage == [type |-> "", data |-> <<>>, message |-> ""]
NoIter == [used |-> 0, todo |-> {}]
NoRefresh == [workflows |-> "none", dependabot_prs |-> "none",
              security_status |-> "none"]

Init ==
  /\ mainPc = "initialize"
  /\ serverPc = "none"
  /\ configured \in BOOLEAN
  /\ pipeline_status = InitialStatus
  /\ pollPc = "none"
  /\ cycle = 0
  /\ clients = {}
  /\ conn = [v \in Viewers |-> "none"]
  /\ handler = [v \in Viewers |-> "none"]
  /\ wire = NoWire
  /\ first = [v \in Viewers |-> ""]
  /\ rx = NoRx
  /\ nreceived = 0
  /\ message = NoMessage
  /\ iter = NoIter
  /\ disconnected = {}
  /\ shutPc = "none"
  /\ shutTodo = {}
  /\ snapshot = <<>>
  /\ sleepDelay = 0
  /\ pre = InitialStatus
  /\ refreshed = NoRefresh
  /\ saves = 0
  /\ sleeps = 0
  /\ bcStart = {}
  /\ bcTried = {}
  /\ ws = "undefined"
  /\ reconnectAttempts = 0
  /\ reconnectDelay = 0
  /\ timers = <<>>
  /\ connectionStatus = ""

\* The poll task is suspended in an await (or not yet started), so the
\* event loop can run another task.
PollSuspended == pollPc \in {"none", "start", "await_runs", "await_pulls",
                              "await_send", "sleep"}

(* ------------------------- main, run_monitor -------------------------- *)
\* A run_monitor that logs the failure of initialize, goes on to
\* start_monitoring and exits 1 afterwards.
RunMonitorIgnoresFailure ==
  /\ mainPc = "initialize"
  /\ mainPc' = "exit_1"
  /\ serverPc' = "starting"
  /\ pollPc' = "start"
  /\ Quiet
  /\ UNCHANGED <<configured, pipeline_status, cycle, message, iter,
                 disconnected, snapshot, sleepDelay, pre, refreshed, saves,
                 sleeps, bcStart, bcTried, viewerVars, shutVars>>
  /\ UNCHANGED clientVars

\* initialize() raises for an invalid repository path and run_monitor
\* exits 1; otherwise start_monitoring creates both tasks and awaits them.
RunMonitorFails ==
  /\ mainPc = "initialize"
  /\ mainPc' = "exit_1"
  /\ Quiet
  /\ UNCHANGED <<serverPc, configured, pollVars, viewerVars, shutVars>>
  /\ UNCHANGED clientVars

RunMonitor ==
  /\ mainPc = "initialize"
  /\ mainPc' = "gather"
  /\ serverPc' = "starting"
  /\ pollPc' = "start"
  /\ Quiet
  /\ UNCHANGED <<configured, pipeline_status, cycle, message, iter,
                 disconnected, snapshot, sleepDelay, pre, refreshed, saves,
                 sleeps, bcStart, bcTried, viewerVars, shutVars>>
  /\ UNCHANGED clientVars

\* websockets.serve(...), create_dashboard(), return server.
StartWebsocketServer ==
  /\ serverPc = "starting"
  /\ serverPc' = "serving"
  /\ Quiet
  /\ UNCHANGED <<mainPc, configured, pollVars, viewerVars, shutVars>>
  /\ UNCHANGED clientVars

(* --------------------------- monitoring_loop -------------------------- *)
\* 'while True:' entered for the first time or after the sleep.
BeginCycle ==
  /\ pollPc \in {"start", "sleep"}
  /\ cycle < MaxCycles
  /\ cycle' = cycle + 1
  /\ pollPc' = "update_workflow_status"
  /\ Quiet
  /\ UNCHANGED <<pipeline_status, message, iter, disconnected, snapshot,
                 sleepDelay, sleeps, pre, refreshed, saves, bcStart,
                 bcTried, mainVars, viewerVars, shutVars>>
  /\ UNCHANGED clientVars

\* update_workflow_status without token or repository: returns at once.
UpdateWorkflowSkip ==
  /\ pollPc = "update_workflow_status"
  /\ ~configured
  /\ pollPc' = "update_dependabot_status"
  /\ refreshed' = [refreshed EXCEPT !.workflows = "skipped"]
  /\ Quiet
  /\ UNCHANGED <<pipeline_status, cycle, message, iter, disconnected,
                 snapshot, sleepDelay, pre, saves, sleeps, bcStart, bcTried,
                 mainVars, viewerVars, shutVars>>
  /\ UNCHANGED clientVars

\* session.get(url): the task is suspended until the response arrives.
UpdateWorkflowRequest ==
  /\ pollPc = "update_workflow_status"
  /\ configured
  /\ pollPc' = "await_runs"
  /\ Quiet
  /\ UNCHANGED <<pipeline_status, cycle, message, iter, disconnected,
                 snapshot, sleepDelay, pre, refreshed, saves, sleeps,
                 bcStart, bcTried, mainVars, viewerVars, shutVars>>
  /\ UNCHANGED clientVars

UpdateWorkflowResponse(resp) ==
  /\ pollPc = "await_runs"
  /\ pipeline_status' =
       [pipeline_status EXCEPT !.workflows = WorkflowsAfter(@, resp)]
  /\ refreshed' = [refreshed EXCEPT
                     !.workflows = IF RunsFetched(resp) THEN "ok" ELSE "failed"]
  /\ pollPc' = "update_dependabot_status"
  /\ Quiet
  /\ UNCHANGED <<cycle, message, iter, disconnected, snapshot, sleepDelay,
                 pre, saves, sleeps, bcStart, bcTried, mainVars, viewerVars,
                 shutVars>>
  /\ UNCHANGED clientVars

UpdateDependabotSkip ==
  /\ pollPc = "update_dependabot_status"
  /\ ~configured
  /\ pollPc' = "update_security_status"
  /\ refreshed' = [refreshed EXCEPT !.dependabot_prs = "skipped"]
  /\ Quiet
  /\ UNCHANGED <<pipeline_status, cycle, message, iter, disconnected,
                 snapshot, sleepDelay, pre, saves, sleeps, bcStart, bcTried,
                 mainVars, viewerVars, shutVars>>
  /\ UNCHANGED clientVars

UpdateDependabotRequest ==
  /\ pollPc = "update_dependabot_status"
  /\ configured
  /\ pollPc' = "await_pulls"
  /\ Quiet
  /\ UNCHANGED <<pipeline_status, cycle, message, iter, disconnected,
                 snapshot, sleepDelay, pre, refreshed, saves, sleeps,
                 bcStart, bcTried, mainVars, viewerVars, shutVars>>
  /\ UNCHANGED clientVars

UpdateDependabotResponse(resp) ==
  /\ pollPc = "await_pulls"
  /\ pipeline_status' =
       [pipeline_status EXCEPT !.dependabot_prs = DependabotAfter(@, resp)]
  /\ refreshed' = [refreshed EXCEPT
                     !.dependabot_prs = IF PullsFetched(resp) THEN "ok" ELSE "failed"]
  /\ pollPc' = "update_security_status"
  /\ Quiet
  /\ UNCHANGED <<cycle, message, iter, disconnected, snapshot, sleepDelay,
                 pre, saves, sleeps, bcStart, bcTried, mainVars, viewerVars,
                 shutVars>>
  /\ UNCHANGED clientVars

\* update_security_status reads the directory without awaiting.
UpdateSecurityStatus(dir) ==
  /\ pollPc = "update_security_status"
  /\ pipeline_status' =
       [pipeline_status EXCEPT !.security_status = SecurityAfter(@, dir)]
  /\ refreshed' = [refreshed EXCEPT
                     !.security_status =
                        IF SecurityFailed(dir) THEN "failed"
                        ELSE IF dir.exists THEN "ok" ELSE "skipped"]
  /\ pollPc' = "update_metrics"
  /\ Quiet
  /\ UNCHANGED <<cycle, message, iter, disconnected, snapshot, sleepDelay,
                 pre, saves, sleeps, bcStart, bcTried, mainVars, viewerVars,
                 shutVars>>
  /\ UNCHANGED clientVars

UpdateMetrics ==
  /\ pollPc = "update_metrics"
  /\ pipeline_status' =
       [pipeline_status EXCEPT
          !.metrics = MetricsAfter(@, pipeline_status.workflows)]
  /\ pollPc' = "broadcast_status"
  /\ Quiet
  /\ UNCHANGED <<cycle, message, iter, disconnected, snapshot, sleepDelay,
                 pre, refreshed, saves, sleeps, bcStart, bcTried, mainVars,
                 viewerVars, shutVars>>
  /\ UNCHANGED clientVars

(* --------------------------- broadcast_status ------------------------- *)
\* 'if self.clients:' is false.
BroadcastSkip ==
  /\ pollPc = "broadcast_status"
  /\ clients = {}
  /\ pollPc' = "save_status"
  /\ Quiet
  /\ UNCHANGED <<pipeline_status, cycle, message, iter, disconnected,
                 snapshot, sleepDelay, pre, refreshed, saves, sleeps,
                 bcStart, bcTried, mainVars, viewerVars, shutVars>>
  /\ UNCHANGED clientVars

\* A broadcast that stamps the message with the time of this cycle.
BroadcastStartStamped ==
  /\ pollPc = "broadcast_status"
  /\ clients # {}
  /\ message' = StatusMessage("status_update",
                   [pipeline_status EXCEPT !.last_update = Iso(cycle)])
  /\ iter' = [used |-> Cardinality(clients), todo |-> clients]
  /\ disconnected' = {}
  /\ bcStart' = clients
  /\ bcTried' = {}
  /\ pollPc' = "broadcast_next"
  /\ Quiet
  /\ UNCHANGED <<pipeline_status, cycle, snapshot, sleepDelay, pre,
                 refreshed, saves, sleeps, mainVars, viewerVars, shutVars>>
  /\ UNCHANGED clientVars

\* json.dumps once, disconnected = set(), and the iterator of
\* 'for client in self.clients', which remembers the size of the set.
BroadcastStart ==
  /\ pollPc = "broadcast_status"
  /\ clients # {}
  /\ message' = StatusMessage("status_update", pipeline_status)
  /\ iter' = [used |-> Cardinality(clients), todo |-> clients]
  /\ disconnected' = {}
  /\ bcStart' = clients
  /\ bcTried' = {}
  /\ pollPc' = "broadcast_next"
  /\ Quiet
  /\ UNCHANGED <<pipeline_status, cycle, snapshot, sleepDelay, pre,
                 refreshed, saves, sleeps, mainVars, viewerVars, shutVars>>
  /\ UNCHANGED clientVars

\* The iterator's next(): RuntimeError 'Set changed size during iteration'
\* when len(self.clients) differs from the remembered size.  The error is
\* raised by the for statement, outside the try around send().
SetChangedSize == Cardinality(clients) # iter.used

\* The task is at the for statement: entering the loop, or resumed from
\* the send() of the previous iteration.
InForLoop == pollPc \in {"broadcast_next", "await_send"}

BroadcastRaise ==
  /\ InForLoop
  /\ SetChangedSize
  /\ pollPc' = "except"
  /\ message' = NoMessage
  /\ iter' = NoIter
  /\ Quiet
  /\ UNCHANGED <<pipeline_status, cycle, disconnected, snapshot, sleepDelay, pre, refreshed, saves, sleeps,
                 bcStart, bcTried, mainVars, viewerVars, shutVars>>
  /\ UNCHANGED clientVars

\* await client.send(message) on an open connection: the frame is written
\* and the task may be suspended until the buffer drains.
BroadcastSendOk(c) ==
  /\ InForLoop
  /\ ~SetChangedSize
  /\ c \in iter.todo
  /\ conn[c] = "open"
  /\ Write(c, <<message>>)
  /\ rx' = NoRx
  /\ iter' = [iter EXCEPT !.todo = @ \ {c}]
  /\ bcTried' = bcTried \cup {c}
  /\ pollPc' = "await_send"
  /\ UNCHANGED <<pipeline_status, cycle, message, disconnected, snapshot,
                 sleepDelay, pre, refreshed, saves, sleeps, bcStart,
                 mainVars, clients, conn, handler, nreceived, shutVars>>
  /\ UNCHANGED clientVars

\* send() raises: ConnectionClosed on a closed connection, another
\* exception on a broken one.  Both add the client to disconnected.
BroadcastSendFails(c) ==
  /\ InForLoop
  /\ ~SetChangedSize
  /\ c \in iter.todo
  /\ conn[c] \in {"closed", "broken"}
  /\ disconnected' = disconnected \cup {c}
  /\ iter' = [iter EXCEPT !.todo = @ \ {c}]
  /\ bcTried' = bcTried \cup {c}
  /\ pollPc' = "await_send"
  /\ Quiet
  /\ UNCHANGED <<pipeline_status, cycle, message, snapshot, sleepDelay, pre,
                 refreshed, saves, sleeps, bcStart, mainVars, viewerVars,
                 shutVars>>
  /\ UNCHANGED clientVars

\* The loop is exhausted: self.clients -= disconnected.
BroadcastEnd ==
  /\ InForLoop
  /\ ~SetChangedSize
  /\ iter.todo = {}
  /\ clients' = clients \ disconnected
  /\ pollPc' = "save_status"
  /\ message' = NoMessage
  /\ iter' = NoIter
  /\ Quiet
  /\ UNCHANGED <<pipeline_status, cycle, disconnected, snapshot, sleepDelay, pre, refreshed, saves, sleeps,
                 bcStart, bcTried, mainVars, conn, handler, first, nreceived,
                 shutVars>>
  /\ UNCHANGED clientVars

(* ------------------- save_status and the end of a cycle --------------- *)
\* ok = FALSE: open() or json.dump raised; save_status logs it.
SaveStatus(ok) ==
  /\ pollPc = "save_status"
  /\ snapshot' = IF ok THEN <<pipeline_status>> ELSE snapshot
  /\ saves' = saves + 1
  /\ pollPc' = "set_last_update"
  /\ Quiet
  /\ UNCHANGED <<pipeline_status, cycle, message, iter, disconnected,
                 sleepDelay, pre, refreshed, sleeps, bcStart, bcTried,
                 mainVars, viewerVars, shutVars>>
  /\ UNCHANGED clientVars

\* The history of a cycle is dropped when the loop goes to sleep; between
\* cycles pre is the current document.
EndOfCycle(status) ==
  /\ pre' = status
  /\ refreshed' = NoRefresh
  /\ saves' = 0
  /\ bcStart' = {}
  /\ bcTried' = {}
  /\ disconnected' = {}

\* last_update = datetime.now().isoformat(); await asyncio.sleep(...).
\* The time of cycle k is modelled as k.
SetLastUpdate ==
  /\ pollPc = "set_last_update"
  /\ pipeline_status' = [pipeline_status EXCEPT !.last_update = Iso(cycle)]
  /\ sleepDelay' = check_interval
  /\ sleeps' = sleeps + 1
  /\ pollPc' = "sleep"
  /\ EndOfCycle([pipeline_status EXCEPT !.last_update = Iso(cycle)])
  /\ Quiet
  /\ UNCHANGED <<cycle, message, iter, snapshot, mainVars, viewerVars,
                 shutVars>>
  /\ UNCHANGED clientVars

\* An except clause that logs and re-raises: the poll task ends.
MonitorExceptRaises ==
  /\ pollPc = "except"
  /\ pollPc' = "returned"
  /\ Quiet
  /\ UNCHANGED <<pipeline_status, cycle, message, iter, disconnected,
                 snapshot, sleepDelay, pre, refreshed, saves, sleeps,
                 bcStart, bcTried, mainVars, viewerVars, shutVars>>
  /\ UNCHANGED clientVars

\* 'except Exception as e:' of monitoring_loop.
MonitorExcept ==
  /\ pollPc = "except"
  /\ sleepDelay' = check_interval
  /\ sleeps' = sleeps + 1
  /\ pollPc' = "sleep"
  /\ EndOfCycle(pipeline_status)
  /\ Quiet
  /\ UNCHANGED <<pipeline_status, cycle, message, iter, snapshot, mainVars, viewerVars, shutVars>>
  /\ UNCHANGED clientVars

(* ------------------------------ handle_client ------------------------- *)
\* Whether the iterator of a suspended broadcast still comes to an
\* element added to the set now depends on the slot the element gets.
IterAfterAdd(v, visit) ==
  IF visit THEN [iter EXCEPT !.todo = @ \cup {v}] ELSE iter

\* A removed element is never returned by the iterator.
IterAfterDiscard(v) == [iter EXCEPT !.todo = @ \ {v}]

\* A handler that registers the viewer and goes straight to reading.
ConnectWithoutInitial(v, visit) ==
  /\ PollSuspended
  /\ serverPc = "serving"
  /\ conn[v] = "none"
  /\ \A u \in Viewers : u < v => conn[u] # "none"
  /\ visit => pollPc = "await_send"
  /\ clients' = clients \cup {v}
  /\ conn' = [conn EXCEPT ![v] = "open"]
  /\ handler' = [handler EXCEPT ![v] = "reading"]
  /\ Quiet
  /\ iter' = IterAfterAdd(v, visit)
  /\ UNCHANGED <<pipeline_status, pollPc, cycle, message, disconnected,
                 snapshot, sleepDelay, pre, refreshed, saves, sleeps,
                 bcStart, bcTried, first, nreceived, mainVars, shutVars>>
  /\ UNCHANGED clientVars

\* A viewer connects: self.clients.add(websocket) and the initial_status
\* message is written before the handler is first suspended.
Connect(v, visit) ==
  /\ PollSuspended
  /\ serverPc = "serving"
  /\ conn[v] = "none"
  /\ \A u \in Viewers : u < v => conn[u] # "none"
  /\ visit => pollPc = "await_send"
  /\ clients' = clients \cup {v}
  /\ conn' = [conn EXCEPT ![v] = "open"]
  /\ handler' = [handler EXCEPT ![v] = "reading"]
  /\ Write(v, <<StatusMessage("initial_status", pipeline_status)>>)
  /\ rx' = NoRx
  /\ iter' = IterAfterAdd(v, visit)
  /\ UNCHANGED <<pipeline_status, pollPc, cycle, message, disconnected,
                 snapshot, sleepDelay, pre, refreshed, saves, sleeps,
                 bcStart, bcTried, nreceived, mainVars, shutVars>>
  /\ UNCHANGED clientVars

\* A dispatch with 'if' in place of 'elif' and a status sent in the final
\* branch: a ping is answered with a pong and then with the status.
ReplyFallsThrough(data, status) ==
  IF ~data.ok THEN <<ErrorMessage>>
  ELSE IF data.type = "ping"
       THEN <<PongMessage, StatusMessage("status_update", status)>>
  ELSE IF data.type = "request_status"
       THEN <<StatusMessage("status_update", status)>>
       ELSE <<>>

\* What handle_client sends back for a payload read by 'async for'.
Reply(data, status) ==
  IF ~data.ok THEN <<ErrorMessage>>
  ELSE IF data.type = "ping" THEN <<PongMessage>>
  ELSE IF data.type = "request_status"
       THEN <<StatusMessage("status_update", status)>>
       ELSE <<>>

\* data.get raises AttributeError when json.loads returned no dict; only
\* JSONDecodeError and ConnectionClosed are caught, so the handler ends.
HandlerRaises(data) == data.ok /\ data.kind # "object"

\* The handler reads one payload and answers it.
Receive(v, text) ==
  /\ PollSuspended
  /\ handler[v] = "reading"
  /\ conn[v] = "open"
  /\ nreceived < MaxInbound
  /\ ~HandlerRaises(json_loads(text))
  /\ rx' = [viewer |-> v, text |-> text]
  /\ nreceived' = nreceived + 1
  /\ Write(v, Reply(json_loads(text), pipeline_status))
  /\ UNCHANGED <<pollVars, clients, conn, handler, mainVars, shutVars>>
  /\ UNCHANGED clientVars

\* The handler reads a payload whose handling raises: 'finally' discards
\* the viewer and the server closes the connection of the ended handler.
ReceiveRaises(v, text) ==
  /\ PollSuspended
  /\ handler[v] = "reading"
  /\ conn[v] = "open"
  /\ nreceived < MaxInbound
  /\ HandlerRaises(json_loads(text))
  /\ rx' = [viewer |-> v, text |-> text]
  /\ nreceived' = nreceived + 1
  /\ wire' = NoWire
  /\ clients' = clients \ {v}
  /\ handler' = [handler EXCEPT ![v] = "done"]
  /\ conn' = [conn EXCEPT ![v] = "closed"]
  /\ iter' = IterAfterDiscard(v)
  /\ UNCHANGED <<pipeline_status, pollPc, cycle, message, disconnected,
                 snapshot, sleepDelay, pre, refreshed, saves, sleeps,
                 bcStart, bcTried, first, mainVars, shutVars>>
  /\ UNCHANGED clientVars

\* The peer closes the connection.
ViewerCloses(v) ==
  /\ PollSuspended
  /\ conn[v] \in {"open", "broken"}
  /\ conn' = [conn EXCEPT ![v] = "closed"]
  /\ Quiet
  /\ UNCHANGED <<pollVars, clients, handler, first, nreceived, mainVars,
                 shutVars>>
  /\ UNCHANGED clientVars

\* The connection breaks without a closing handshake: nothing arrives any
\* more and send() raises an error other than ConnectionClosed.
ViewerBreaks(v) ==
  /\ PollSuspended
  /\ conn[v] = "open"
  /\ conn' = [conn EXCEPT ![v] = "broken"]
  /\ Quiet
  /\ UNCHANGED <<pollVars, clients, handler, first, nreceived, mainVars,
                 shutVars>>
  /\ UNCHANGED clientVars

\* A handler without the 'finally' clause: it ends and leaves the viewer
\* in the set.
HandlerExitWithoutDiscard(v) ==
  /\ PollSuspended
  /\ handler[v] = "reading"
  /\ conn[v] = "closed"
  /\ handler' = [handler EXCEPT ![v] = "done"]
  /\ Quiet
  /\ UNCHANGED <<pollVars, clients, conn, first, nreceived, mainVars,
                 shutVars>>
  /\ UNCHANGED clientVars

\* 'async for' ends on a closed connection: 'finally' discards the viewer.
HandlerExit(v) ==
  /\ PollSuspended
  /\ handler[v] = "reading"
  /\ conn[v] = "closed"
  /\ clients' = clients \ {v}
  /\ handler' = [handler EXCEPT ![v] = "done"]
  /\ iter' = IterAfterDiscard(v)
  /\ Quiet
  /\ UNCHANGED <<pipeline_status, pollPc, cycle, message, disconnected,
                 snapshot, sleepDelay, pre, refreshed, saves, sleeps,
                 bcStart, bcTried, conn, first, nreceived, mainVars, shutVars>>
  /\ UNCHANGED clientVars

(* ------------------------ signal and shutdown ------------------------- *)
\* SIGINT or SIGTERM: _signal_handler creates the shutdown task, which
\* starts 'for client in self.clients.copy()'.
Signal ==
  /\ PollSuspended
  /\ mainPc = "gather"
  /\ shutPc = "none"
  /\ shutTodo' = clients
  /\ shutPc' = "closing"
  /\ Quiet
  /\ UNCHANGED <<pollVars, viewerVars, mainVars>>
  /\ UNCHANGED clientVars

\* await client.close()
ShutdownClose(c) ==
  /\ PollSuspended
  /\ shutPc = "closing"
  /\ c \in shutTodo
  /\ conn' = [conn EXCEPT ![c] = "closed"]
  /\ shutTodo' = shutTodo \ {c}
  /\ Quiet
  /\ UNCHANGED <<shutPc, pollVars, clients, handler, first, nreceived,
                 mainVars>>
  /\ UNCHANGED clientVars

\* The copy is exhausted; shutdown logs and returns.
ShutdownEnd ==
  /\ PollSuspended
  /\ shutPc = "closing"
  /\ shutTodo = {}
  /\ shutPc' = "done"
  /\ Quiet
  /\ UNCHANGED <<shutTodo, pollVars, viewerVars, mainVars>>
  /\ UNCHANGED clientVars

(* ---------------------- dashboard client (JavaScript) ---------------- *)
\* The fields the constructor assigns.
InitialReconnectDelay == 1000
maxReconnectDelay == 30000

RECURSIVE Pow2(_)
Pow2(n) == IF n = 0 THEN 1 ELSE 2 * Pow2(n - 1)

Min(a, b) == IF a < b THEN a ELSE b

\* scheduleReconnect() called with the given field values and pending
\* timers: the counter is incremented first, then the delay is computed
\* from it and the timer is set.
scheduleReconnect(attempts, delay, pending) ==
  /\ attempts < MaxAttempts
  /\ reconnectAttempts' = attempts + 1
  /\ timers' = Append(pending, Min(delay * Pow2(attempts + 1),
                                   maxReconnectDelay))

\* connect() with the given field values: 'new WebSocket' either returns a
\* socket that is connecting or throws, and the catch clause schedules a
\* reconnect.
connect(throws, attempts, delay, pending) ==
  IF throws
  THEN scheduleReconnect(attempts, delay, pending)
  ELSE /\ ws' = "connecting"
       /\ reconnectAttempts' = attempts
       /\ timers' = pending

\* The page is loaded: new PipelineMonitor().
ClientConstructor(throws) ==
  /\ ws = "undefined"
  /\ reconnectDelay' = InitialReconnectDelay
  /\ connect(throws, 0, InitialReconnectDelay, timers)
  /\ throws => ws' = "null"
  /\ Quiet
  /\ UNCHANGED <<connectionStatus, pollVars, viewerVars,
                 mainVars, shutVars>>

\* ws.onopen: the server accepted the connection.
OnOpen ==
  /\ ws = "connecting"
  /\ serverPc = "serving"
  /\ ws' = "open"
  /\ connectionStatus' = "Connected"
  /\ reconnectAttempts' = 0
  /\ reconnectDelay' = InitialReconnectDelay
  /\ Quiet
  /\ UNCHANGED <<timers, pollVars, viewerVars, mainVars,
                 shutVars>>

\* ws.onerror: the connection failed; the close event follows.
OnError ==
  /\ ws \in {"connecting", "open"}
  /\ ws' = "errored"
  /\ connectionStatus' = "Disconnected"
  /\ Quiet
  /\ UNCHANGED <<reconnectAttempts, reconnectDelay, timers,
                 pollVars, viewerVars, mainVars, shutVars>>

\* ws.onclose: after an open connection, a refused one or an error.
OnClose ==
  /\ ws \in {"connecting", "open", "errored"}
  /\ ws' = "closed"
  /\ connectionStatus' = "Disconnected"
  /\ scheduleReconnect(reconnectAttempts, reconnectDelay, timers)
  /\ Quiet
  /\ UNCHANGED <<reconnectDelay, pollVars, viewerVars, mainVars,
                 shutVars>>

\* A pending timer fires: its callback calls connect().
TimerFires(throws) ==
  /\ timers # <<>>
  /\ connect(throws, reconnectAttempts, reconnectDelay, Tail(timers))
  /\ throws => ws' = ws
  /\ Quiet
  /\ UNCHANGED <<reconnectDelay, connectionStatus, pollVars,
                 viewerVars, mainVars, shutVars>>

(* --------------------------- specification ---------------------------- *)
Main ==
  \/ RunMonitorFails
  \/ RunMonitor
  \/ StartWebsocketServer

\* The poll task outside broadcast_status, with the sources answering
\* from the given sets and the snapshot written or not as in writes.
Poll(runs, pulls, dirs, writes) ==
  \/ BeginCycle
  \/ UpdateWorkflowSkip
  \/ UpdateWorkflowRequest
  \/ \E resp \in runs : UpdateWorkflowResponse(resp)
  \/ UpdateDependabotSkip
  \/ UpdateDependabotRequest
  \/ \E resp \in pulls : UpdateDependabotResponse(resp)
  \/ \E dir \in dirs : UpdateSecurityStatus(dir)
  \/ UpdateMetrics
  \/ BroadcastSkip
  \/ \E ok \in writes : SaveStatus(ok)
  \/ SetLastUpdate

Broadcast ==
  \/ BroadcastStart
  \/ BroadcastRaise
  \/ \E c \in Viewers : BroadcastSendOk(c)
  \/ \E c \in Viewers : BroadcastSendFails(c)
  \/ BroadcastEnd
  \/ MonitorExcept

HandleClient ==
  \/ \E v \in Viewers, visit \in BOOLEAN : Connect(v, visit)
  \/ \E v \in Viewers, text \in Payloads : Receive(v, text)
  \/ \E v \in Viewers, text \in Payloads : ReceiveRaises(v, text)
  \/ \E v \in Viewers : ViewerCloses(v)
  \/ \E v \in Viewers : ViewerBreaks(v)
  \/ \E v \in Viewers : HandlerExit(v)

Shutdown ==
  \/ Signal
  \/ \E c \in Viewers : ShutdownClose(c)
  \/ ShutdownEnd

\* The answers of the sources while viewers come and go: one run list or
\* an HTTP error, one pull list, a report directory without reports.
FewRuns == {resp \in RunsResponses :
              resp.status = 500 \/ resp.workflow_runs = <<RunA>>}
FewPulls == {resp \in PullsResponses : PullsFetched(resp) /\ Len(resp.pulls) = 2}
FewDirs == {dir \in SecurityDirs : dir.exists /\ dir.reports = {}}

\* The whole service.
Next ==
  \/ Main
  \/ Poll(FewRuns, FewPulls, FewDirs, BOOLEAN)
  \/ Broadcast
  \/ HandleClient
  \/ Shutdown

Spec == Init /\ [][Next]_vars

\* The poll loop alone, no viewer connecting, with every answer of the
\* three sources.
NextSources ==
  \/ Main
  \/ Poll(RunsResponses, PullsResponses, SecurityDirs, BOOLEAN)

SpecSources == Init /\ [][NextSources]_vars

\* The service while no signal arrives, every source answering with its
\* one list and the snapshot written.  A connection that shutdown() closes
\* is a connection closed, as in ViewerCloses.
OneRun == {resp \in FewRuns : RunsFetched(resp)}

NextViewers ==
  \/ Main
  \/ Poll(OneRun, FewPulls, FewDirs, {TRUE})
  \/ Broadcast
  \/ HandleClient

SpecViewers == Init /\ [][NextViewers]_vars

\* The poll loop alone with every run list of the pool, the pull request
\* failing and the report directory empty.
NoPulls == {resp \in PullsResponses : resp.status = 404}

NextRuns ==
  \/ Main
  \/ Poll(PoolResponses, NoPulls, FewDirs, {TRUE})

SpecRuns == Init /\ [][NextRuns]_vars

Client ==
  \/ \E throws \in BOOLEAN : ClientConstructor(throws)
  \/ OnOpen
  \/ OnError
  \/ OnClose
  \/ \E throws \in BOOLEAN : TimerFires(throws)

NextClient ==
  \/ Main
  \/ Client

SpecClient == Init /\ [][NextClient]_vars

(* =============================== claims =============================== *)
\* broadcast_status has returned or raised and the cycle is not yet asleep.
BroadcastOver == pollPc \in {"save_status", "except"} /\ bcStart # {}

\* Viewer v is still served: registered, handler running, connection open.
Connected(v) == v \in clients /\ handler[v] = "reading" /\ conn[v] = "open"

\* C1: when a broadcast is over, every viewer that was registered when it
\* started (and is still connected) has been sent the status_update, and
\* every frame a broadcast writes is the one message serialised at its
\* start, carrying the document.
C1_BroadcastReachesEveryViewer ==
  /\ BroadcastOver => \A v \in bcStart : Connected(v) => v \in bcTried
  /\ pollPc = "await_send" /\ rx = NoRx =>
       \A v \in Viewers :
          wire[v] # <<>> /\ Head(wire[v]).type = "status_update" =>
             wire[v] = <<StatusMessage("status_update", pipeline_status)>>

\* C2: when a broadcast is over, every viewer whose send failed is out of
\* the registry, no viewer whose send did not fail was removed by the
\* broadcast, and every other viewer registered at the start (and still
\* connected) got the update.
C2_FailedViewerDropped ==
  BroadcastOver =>
    /\ disconnected \cap clients = {}
    /\ \A v \in bcStart \ disconnected :
         /\ handler[v] = "reading" => v \in clients
         /\ Connected(v) => v \in bcTried

\* The metrics of a document are those of the runs it holds.
Consistent(status) ==
  LET runs == all_runs(status.workflows)
  IN /\ status.metrics.total_runs = Len(runs)
     /\ status.metrics.success_rate =
          IF runs = <<>> THEN Zero
          ELSE Frac(Len(SelectSeq(runs, IsSuccess)) * 100, Len(runs))

\* C3: every document written to a viewer (initial_status, status_update
\* on request or by a broadcast) has metrics computed from exactly the
\* workflows it contains.
C3_NeverHalfUpdated ==
  \A v \in Viewers : \A i \in 1..Len(wire[v]) :
     wire[v][i].data # <<>> => Consistent(wire[v][i].data[1])

\* C4: once shutdown has run, no new viewer is accepted, the poll loop
\* performs no further cycle, and every viewer connection is closed.
C4_StopsAfterSignal ==
  [][shutPc = "done" =>
       /\ clients' \subseteq clients
       /\ cycle' = cycle
       /\ \A v \in Viewers : conn'[v] \in {"none", "closed"}]_vars

\* C5: when the three sources have been refreshed in a cycle, each of
\* them has run, and the portion of a source whose refresh failed is
\* exactly what it was when the cycle started.
C5_SourcesFailIndependently ==
  pollPc = "update_metrics" =>
    /\ refreshed.workflows # "none"
    /\ refreshed.dependabot_prs # "none"
    /\ refreshed.security_status # "none"
    /\ refreshed.workflows = "failed" =>
         pipeline_status.workflows = pre.workflows
    /\ refreshed.dependabot_prs = "failed" =>
         pipeline_status.dependabot_prs = pre.dependabot_prs
    /\ refreshed.security_status = "failed" =>
         pipeline_status.security_status = pre.security_status

\* A second cycle in which the workflow refresh failed over a non-empty
\* previous value while the two other sources were refreshed.
C5_Witness ==
  /\ pollPc = "update_metrics"
  /\ refreshed.workflows = "failed"
  /\ pre.workflows # <<>>
  /\ refreshed.dependabot_prs = "ok"
  /\ pipeline_status.dependabot_prs # pre.dependabot_prs
  /\ refreshed.security_status = "ok"
  /\ pipeline_status.security_status # pre.security_status

\* Positions of the poll task inside 'while True'.
LoopPositions ==
  {"update_workflow_status", "await_runs", "update_dependabot_status",
   "await_pulls", "update_security_status", "update_metrics",
   "broadcast_status", "broadcast_next", "await_send", "save_status",
   "set_last_update", "except", "sleep"}

C7_SnapshotEveryCycle ==
  [][pollPc # "sleep" /\ pollPc' = "sleep" => saves = 1]_vars

\* C8: a viewer whose handler has started is registered at once and has
\* been sent initial_status, carrying the document of that moment, as its
\* first frame; no other frame is ever the first.
C8_InitialStatusFirst ==
  \A v \in Viewers :
     /\ handler[v] # "none" => first[v] = "initial_status"
     /\ first[v] \in {"", "initial_status"}
     /\ wire[v] # <<>> /\ Head(wire[v]).type = "initial_status" =>
          /\ wire[v] = <<StatusMessage("initial_status", pipeline_status)>>
          /\ v \in clients

\* A viewer that connected while the poll loop slept is sent a broadcast.
C8_Witness ==
  \E v \in Viewers :
     /\ first[v] = "initial_status"
     /\ pollPc = "await_send"
     /\ rx = NoRx
     /\ wire[v] # <<>> /\ Head(wire[v]).type = "status_update"

IsControl(text) ==
  json_loads(text).ok /\ json_loads(text).type \in {"ping", "request_status"}

\* C9: a payload that is neither ping nor request_status has been answered
\* with one error frame, and its viewer's handler is still running and the
\* viewer still registered.
C9_MalformedAnsweredWithError ==
  rx.viewer # 0 /\ ~IsControl(rx.text) =>
    /\ wire[rx.viewer] = <<ErrorMessage>>
    /\ handler[rx.viewer] = "reading"
    /\ rx.viewer \in clients

\* C10: the step that handles a ping writes exactly one pong, the step
\* that handles a request_status exactly one status_update carrying the
\* document of that moment, to the sender and to no one else, and changes
\* neither the registry nor the document.
C10_ControlMessages ==
  [][nreceived' = nreceived + 1 /\ IsControl(rx'.text) =>
       /\ wire' = [NoWire EXCEPT
                     ![rx'.viewer] =
                        IF json_loads(rx'.text).type = "ping"
                        THEN <<PongMessage>>
                        ELSE <<StatusMessage("status_update", pipeline_status)>>]
       /\ clients' = clients
       /\ pipeline_status' = pipeline_status]_vars

\* A ping answered while two viewers are registered.
C10_Witness ==
  /\ rx.viewer # 0
  /\ json_loads(rx.text).type = "ping"
  /\ Cardinality(clients) = 2
  /\ wire[rx.viewer] = <<PongMessage>>

\* The derived metrics recomputed from the runs a document holds.
Recomputed(workflows) ==
  LET runs == all_runs(workflows)
      completed_runs == SelectSeq(runs, IsCompleted)
  IN [total_runs |-> Len(runs),
      success_rate |-> IF runs = <<>> THEN Zero
                       ELSE Frac(Len(SelectSeq(runs, IsSuccess)) * 100, Len(runs)),
      avg_duration |-> IF completed_runs = <<>> THEN Zero
                       ELSE Frac(SumSeq(Durations(completed_runs)),
                                 Len(completed_runs))]

\* update_metrics of the current cycle has returned.
AfterUpdateMetrics ==
  pollPc \in {"broadcast_status", "save_status", "set_last_update"}

\* C11: once update_metrics has run in a cycle, total_runs, success_rate
\* and avg_duration are the values recomputed from the runs held in
\* workflows (0 when there is no run, or no run of positive duration).
C11_MetricsNeverStale ==
  AfterUpdateMetrics =>
    LET m == pipeline_status.metrics
        fresh == Recomputed(pipeline_status.workflows)
    IN /\ m.total_runs = fresh.total_runs
       /\ m.success_rate = fresh.success_rate
       /\ m.avg_duration = fresh.avg_duration

\* The groups of the document.
Groups == {pipeline_status.workflows[i] : i \in 1..Len(pipeline_status.workflows)}

\* C12: every group of the document holds at least one run, and its
\* success_rate is 100 x (runs with conclusion 'success') / (all its runs),
\* a value from 0 to 100; runs in progress, failed or cancelled count in
\* the denominator.
C12_GroupSuccessRate ==
  \A w \in Groups :
     LET runs == w.recent_runs
         successful == Len(SelectSeq(runs, IsSuccess))
     IN /\ Len(runs) > 0
        /\ w.success_rate = Frac(successful * 100, Len(runs))
        /\ w.success_rate.num >= 0
        /\ w.success_rate.num <= 100 * w.success_rate.den

\* A group with one success and one run in progress has rate 50.
C12_Witness ==
  \E w \in Groups :
     /\ Len(w.recent_runs) = 2
     /\ \E i \in 1..2 : w.recent_runs[i].status = "in_progress"
     /\ \E i \in 1..2 : w.recent_runs[i].conclusion = "success"
     /\ w.success_rate = Frac(50, 1)

\* The runs the document holds, group by group.
HeldRuns ==
  LET runs == all_runs(pipeline_status.workflows)
  IN {runs[i] : i \in 1..Len(runs)}

\* C13: the duration stored for every run of the document is >= 0.
C13_DurationNotNegative ==
  \A r \in HeldRuns : r.duration >= 0

\* The values a timestamp field can hold.
Timestamps == {Iso(t) : t \in 0..MaxTime} \cup {BadTime, None}

\* _calculate_duration on every pair with a null or unparseable member.
ZeroOnBadTime ==
  \A a, b \in Timestamps :
     a.kind # "iso" \/ b.kind # "iso" => _calculate_duration(a, b) = 0

\* C14: _calculate_duration returns 0 whenever either timestamp is null or
\* no ISO time, and every run the document holds with such a timestamp is
\* held with duration 0.
C14_DurationZeroOnBadTime ==
  /\ ZeroOnBadTime
  /\ \A r \in HeldRuns :
        r.created_at.kind # "iso" \/ r.updated_at.kind # "iso" => r.duration = 0

\* The run with an unparseable created_at and a null updated_at is held
\* in its group, beside a run of positive duration.
C14_Witness ==
  /\ \E w \in Groups :
        /\ w.name = "deploy"
        /\ \E i \in 1..Len(w.recent_runs) :
              /\ w.recent_runs[i].id = 5
              /\ w.recent_runs[i].created_at = BadTime
              /\ w.recent_runs[i].updated_at = None
              /\ w.recent_runs[i].duration = 0
  /\ \E r \in HeldRuns : r.duration > 0

\* Sum of the positive durations of runs over their number.
AvgOfCompleted(runs) ==
  LET completed_runs == SelectSeq(runs, IsCompleted)
  IN Frac(SumSeq(Durations(completed_runs)), Len(completed_runs))

HasCompleted(runs) == SelectSeq(runs, IsCompleted) # <<>>

\* C15: wherever runs of positive duration are held, the average duration
\* of a group, and after update_metrics the aggregate one, is the sum of
\* the positive durations over their number; the runs of duration 0 are
\* nevertheless counted in total_runs and in the denominator of the
\* success rates.
C15_AverageExcludesZeroDurations ==
  /\ \A w \in Groups :
        /\ HasCompleted(w.recent_runs) =>
              w.avg_duration = AvgOfCompleted(w.recent_runs)
        /\ w.success_rate =
              Frac(Len(SelectSeq(w.recent_runs, IsSuccess)) * 100,
                   Len(w.recent_runs))
  /\ AfterUpdateMetrics /\ pipeline_status.workflows # <<>> =>
        LET runs == all_runs(pipeline_status.workflows)
            m == pipeline_status.metrics
        IN /\ HasCompleted(runs) => m.avg_duration = AvgOfCompleted(runs)
           /\ m.total_runs = Len(runs)
           /\ m.success_rate =
                Frac(Len(SelectSeq(runs, IsSuccess)) * 100, Len(runs))

\* C16: a step of update_security_status that finds the report directory
\* absent, or without a matching report, leaves security_status.status
\* at NO_SCAN.
C16_NoScanWhenAbsentOrEmpty ==
  [][\A dir \in SecurityDirs :
        (~dir.exists \/ dir.reports = {}) /\ UpdateSecurityStatus(dir) =>
           pipeline_status'.security_status.status = "NO_SCAN"]_vars

\* C17: a step of update_security_status that finds several matching
\* reports takes the one with the greatest modification time: if it
\* parses, security_status is its content and report_file its name; if
\* not, security_status keeps its value.  Either way the cycle goes on to
\* update_metrics.
C17_LatestReportByMtime ==
  [][\A dir \in SecurityDirs :
        dir.exists /\ Cardinality(dir.reports) >= 2 /\ UpdateSecurityStatus(dir) =>
           /\ pollPc' = "update_metrics"
           /\ \E r \in dir.reports :
                /\ \A q \in dir.reports : q.mtime <= r.mtime
                /\ pipeline_status'.security_status =
                     IF r.parses
                     THEN [last_scan |-> r.timestamp,
                           total_vulnerabilities |-> r.total,
                           status |-> r.status, report_file |-> r.name]
                     ELSE pipeline_status.security_status]_vars

\* The latest report of a second cycle did not parse, and security_status
\* still holds what the first cycle took from the report modified last,
\* which is not the last by name.
C17_Witness ==
  /\ pollPc = "update_metrics"
  /\ cycle = 2
  /\ refreshed.security_status = "failed"
  /\ pipeline_status.security_status.report_file = "security-report-a.json"
  /\ pipeline_status.security_status.status = "VULNERABILITIES_FOUND"
  /\ pipeline_status.security_status.total_vulnerabilities = 3

\* The positions of the bot's pull requests in an answer, and the k-th of
\* them.
BotPositions(pulls) ==
  {i \in 1..Len(pulls) : pulls[i].login = "dependabot[bot]"}

KthBotPosition(pulls, k) ==
  CHOOSE i \in BotPositions(pulls) :
     Cardinality({j \in BotPositions(pulls) : j <= i}) = k

\* C18: the step that handles a successful pull-request fetch leaves in
\* dependabot_prs one entry for each fetched pull request of
\* dependabot[bot], in the provider's order, and nothing else.
C18_DependabotFilter ==
  [][\A resp \in PullsResponses :
        PullsFetched(resp) /\ UpdateDependabotResponse(resp) =>
           LET prs == pipeline_status'.dependabot_prs
           IN /\ Len(prs) = Cardinality(BotPositions(resp.pulls))
              /\ \A k \in 1..Len(prs) :
                    prs[k].number = resp.pulls[KthBotPosition(resp.pulls, k)].number]_vars

\* Of the pull requests 9 (bot), 8 (alice), 7 (bot) the document holds 9
\* and 7, in this order.
C18_Witness ==
  /\ pollPc = "update_security_status"
  /\ refreshed.dependabot_prs = "ok"
  /\ Len(pipeline_status.dependabot_prs) = 2
  /\ pipeline_status.dependabot_prs[1].number = 9
  /\ pipeline_status.dependabot_prs[2].number = 7

\* C19: a step never changes metrics.last_success or metrics.last_failure
\* once it holds a timestamp, and a step that changes last_success sets it
\* to the updated_at of a held run of conclusion 'success', one that
\* changes last_failure to that of a held run of conclusion 'failure' or
\* 'cancelled'.
C19_LastSuccessFailureWriteOnce ==
  [][LET m == pipeline_status.metrics
         n == pipeline_status'.metrics
     IN /\ Truthy(m.last_success) => n.last_success = m.last_success
        /\ Truthy(m.last_failure) => n.last_failure = m.last_failure
        /\ n.last_success # m.last_success =>
              \E r \in HeldRuns :
                 r.conclusion = "success" /\ r.updated_at = n.last_success
        /\ n.last_failure # m.last_failure =>
              \E r \in HeldRuns :
                 r.conclusion \in {"failure", "cancelled"}
                 /\ r.updated_at = n.last_failure]_vars

\* A second cycle's update_metrics has gone through with a success held
\* whose time differs from the one captured in the first cycle, which no
\* held run has any more.
C19_Witness ==
  /\ cycle = 2
  /\ AfterUpdateMetrics
  /\ pipeline_status.metrics.last_success = Iso(40)
  /\ pipeline_status.metrics.total_runs = Cardinality(HeldRuns)
  /\ \E r \in HeldRuns : r.conclusion = "success"
  /\ \A r \in HeldRuns : r.updated_at # Iso(40)

\* The first run of the document, in group order, whose conclusion is one
\* of the given ones.
HasMatch(conclusions) ==
  \E r \in HeldRuns : r.conclusion \in conclusions

FirstInGroupOrder(conclusions) ==
  LET runs == all_runs(pipeline_status.workflows)
      i == CHOOSE i \in 1..Len(runs) :
              /\ runs[i].conclusion \in conclusions
              /\ \A j \in 1..(i - 1) : runs[j].conclusion \notin conclusions
  IN runs[i]

\* C20: the step of update_metrics that first captures last_success sets
\* it to the updated_at of the first run of conclusion 'success' in group
\* order (workflows' recent_runs flattened group by group), and likewise
\* last_failure for 'failure' or 'cancelled'.
C20_FirstInGroupOrderCaptured ==
  [][LET m == pipeline_status.metrics
         n == pipeline_status'.metrics
     IN /\ ~Truthy(m.last_success) /\ Truthy(n.last_success) =>
              /\ HasMatch({"success"})
              /\ n.last_success = FirstInGroupOrder({"success"}).updated_at
        /\ ~Truthy(m.last_failure) /\ Truthy(n.last_failure) =>
              /\ HasMatch({"failure", "cancelled"})
              /\ n.last_failure =
                    FirstInGroupOrder({"failure", "cancelled"}).updated_at]_vars

\* C21: when initialize has failed and the process has exited 1, the poll
\* loop has performed no cycle and written no snapshot, and the server
\* has not been started and has accepted no viewer.
C21_InvalidRepoExitsBeforeLoop ==
  mainPc = "exit_1" =>
    /\ cycle = 0
    /\ pollPc = "none"
    /\ snapshot = <<>>
    /\ pipeline_status = InitialStatus
    /\ serverPc = "none"
    /\ clients = {}
    /\ \A v \in Viewers : conn[v] = "none" /\ handler[v] = "none"

\* run_monitor has exited with status 1.
C21_Witness == mainPc = "exit_1" /\ pollPc = "none" /\ serverPc = "none"

\* The runs of a list that have the given workflow name, in list order.
RunsNamed(runs, name) == SelectSeq(runs, LAMBDA r : r.name = name)

\* C22: the step that handles a successful workflow fetch leaves in
\* workflows one group for each workflow name among the first min(10, n)
\* fetched runs and no other group; a group holds the runs of its name,
\* each once, in received order, and its latest_run is the first of them.
C22_WorkflowsReplacedWholesale ==
  [][\A resp \in RunsResponses :
        RunsFetched(resp) /\ UpdateWorkflowResponse(resp) =>
           LET n == Len(resp.workflow_runs)
               kept == SubSeq(resp.workflow_runs, 1, IF n < 10 THEN n ELSE 10)
               gs == pipeline_status'.workflows
           IN /\ \A i, j \in 1..Len(gs) : gs[i].name = gs[j].name => i = j
              /\ \A k \in 1..Len(kept) :
                    \E i \in 1..Len(gs) : gs[i].name = kept[k].name
              /\ \A i \in 1..Len(gs) :
                    LET mine == RunsNamed(kept, gs[i].name)
                    IN /\ mine # <<>>
                       /\ gs[i].latest_run = mine[1]
                       /\ Len(gs[i].recent_runs) = Len(mine)
                       /\ \A k \in 1..Len(mine) :
                             /\ gs[i].recent_runs[k].id = mine[k].id
                             /\ gs[i].recent_runs[k].conclusion = mine[k].conclusion
                             /\ gs[i].recent_runs[k].updated_at = mine[k].updated_at]_vars

\* A second cycle has fetched twelve runs and holds the first ten of
\* them in two groups, in place of what the first cycle had fetched.
C22_Witness ==
  /\ cycle = 2
  /\ pollPc = "update_dependabot_status"
  /\ refreshed.workflows = "ok"
  /\ pre.workflows # <<>>
  /\ pre.workflows # pipeline_status.workflows
  /\ Len(pipeline_status.workflows) = 2
  /\ Len(all_runs(pipeline_status.workflows)) = 10

\* C23: a broadcast is not disturbed by a viewer that connects or a handler
\* that exits while it is suspended in a send: the for loop never raises,
\* a broadcast that is over has attempted a delivery to every viewer
\* registered at its start, and a cycle that has broadcast goes to sleep
\* with the snapshot written once and last_update set.
C23_BroadcastUndisturbed ==
  /\ [][InForLoop => pollPc' # "except"]_vars
  /\ [](BroadcastOver => bcStart \subseteq bcTried)
  /\ [][bcStart # {} /\ pollPc # "sleep" /\ pollPc' = "sleep" =>
          saves = 1 /\ pipeline_status'.last_update = Iso(cycle)]_vars

\* The viewers whose connection handler is running.
Running == {v \in Viewers : handler[v] = "reading"}

StampedBefore(k) == {Iso(j) : j \in 1..(k - 1)}

\* C25: last_update changes only in the step after save_status, which
\* stamps it with the time of its cycle, so a cycle that raises leaves it
\* unchanged; during cycle k the document holds the last_update it had
\* when cycle k-1 went to sleep, absent in the first cycle and otherwise
\* absent or stamped by an earlier cycle, and that is the value in the
\* message broadcast and in the snapshot written in cycle k.
C25_LastUpdateLagsOneCycle ==
  /\ [][pipeline_status'.last_update # pipeline_status.last_update =>
          /\ pollPc = "set_last_update" /\ saves = 1
          /\ pipeline_status'.last_update = Iso(cycle)]_vars
  /\ [][pollPc = "set_last_update" /\ pollPc' # pollPc =>
          pipeline_status'.last_update = Iso(cycle)]_vars
  /\ [][pollPc = "except" /\ pollPc' # pollPc =>
          pipeline_status'.last_update = pipeline_status.last_update]_vars
  /\ [](pollPc \in LoopPositions \ {"sleep"} =>
          /\ pipeline_status.last_update = pre.last_update
          /\ pre.last_update \in {None} \cup StampedBefore(cycle)
          /\ cycle = 1 => pre.last_update = None
          /\ message # NoMessage =>
                message.data[1].last_update = pre.last_update
          /\ pollPc = "set_last_update" =>
                snapshot # <<>> /\ snapshot[1].last_update = pre.last_update)

\* The second cycle broadcasts a message that carries the time stamped at
\* the end of the first.
C25_Witness ==
  /\ cycle = 2
  /\ pollPc = "await_send"
  /\ message # NoMessage
  /\ message.data[1].last_update = Iso(1)
  /\ \E v \in Viewers : wire[v] = <<message>>

\* C26: without a token or with a repository identifier that does not
\* split in two, workflows, dependabot_prs and metrics keep their initial
\* values for ever, and every cycle that goes to sleep has refreshed
\* security_status, has gone through broadcast_status to its end and has
\* written the snapshot once.
C26_UnconfiguredKeepsInitial ==
  /\ [](~configured =>
          /\ pipeline_status.workflows = InitialStatus.workflows
          /\ pipeline_status.dependabot_prs = InitialStatus.dependabot_prs
          /\ pipeline_status.metrics = InitialMetrics)
  /\ [][~configured /\ pollPc # "sleep" /\ pollPc' = "sleep" =>
          /\ refreshed.security_status # "none"
          /\ pollPc = "set_last_update"
          /\ saves = 1]_vars

\* The last step read a payload that json.loads rejects.
NotJsonRead == rx.viewer # 0 /\ ~json_loads(rx.text).ok

\* C27: the step that reads a payload that is not JSON writes exactly one
\* error frame, to the sender only, and leaves the sender's handler
\* reading, its connection open and the sender registered; a broadcast
\* that is under way, started with that sender registered and has still
\* to reach it, does not abort before sending to it.
C27_NotJsonAnsweredAndStillServed ==
  /\ [](NotJsonRead =>
          /\ wire = [NoWire EXCEPT ![rx.viewer] = <<ErrorMessage>>]
          /\ Connected(rx.viewer))
  /\ [][/\ NotJsonRead
          /\ InForLoop
          /\ rx.viewer \in bcStart \cap iter.todo
          => pollPc' # "except"]_vars

\* The delay scheduleReconnect is to use after the given number of
\* consecutive failed attempts: the base for the first retry, doubled for
\* each further one, capped.
BackoffDelay(failed) ==
  Min(InitialReconnectDelay * Pow2(failed), maxReconnectDelay)

\* C28: every timer the dashboard client sets after a disconnect has the
\* delay 1000 ms when it is the first retry since the page was loaded or
\* since the last successful open, twice the previous delay for each
\* further consecutive failure, and never more than 30000 ms; a closed
\* connection always has a reconnect pending, and at most one timer is
\* pending at any time.
C28_ReconnectBackoff ==
  /\ [](Len(timers) <= 1)
  /\ [](\A i \in 1..Len(timers) : timers[i] <= 30000)
  /\ [](ws = "closed" => timers # <<>>)
  /\ [][reconnectAttempts' = reconnectAttempts + 1 =>
          /\ timers' # <<>>
          /\ timers'[Len(timers')] = BackoffDelay(reconnectAttempts)]_vars

====
